---- MODULE Spec2Model ----
(***************************************************************************)
(* A model of vba-blocks' lockfile codec (readLockfile, isLockfileValid,   *)
(* toToml, fromToml) and of its registry source (update, resolve, fetch).  *)
(*                                                                         *)
(* Strings that the code takes apart (a source "type+location#details", a  *)
(* dependency id "name version source") are sequences of tokens, in which  *)
(* the tokens "#" and " " are the separator characters.                    *)
(***************************************************************************)
EXTENDS Integers, Sequences, FiniteSets, TLC

VARIABLES pc, call, archive, tmp, srcDir, prior, calls,
          upd, rdr, vld, cdc

fetchVars == <<pc, call, archive, tmp, srcDir, prior, calls>>
vars == <<pc, call, archive, tmp, srcDir, prior, calls, upd, rdr, vld, cdc>>

(***************************************************************************)
(* Strings                                                                 *)
(***************************************************************************)

\* The value JavaScript gives a missing array element or property.
Undefined == <<"(undefined)">>

RECURSIVE IndexOf(_, _, _)
\* The first position >= from of token sep in s, 0 when there is none.
IndexOf(s, sep, from) ==
  IF from > Len(s) THEN 0
  ELSE IF s[from] = sep THEN from
  ELSE IndexOf(s, sep, from + 1)

RECURSIVE Split(_, _)
\* String.prototype.split(sep): every piece between separators.
Split(s, sep) ==
  LET i == IndexOf(s, sep, 1) IN
  IF i = 0 THEN <<s>>
  ELSE <<SubSeq(s, 1, i - 1)>> \o Split(SubSeq(s, i + 1, Len(s)), sep)

\* String.prototype.split(sep, limit): the first limit pieces.
SplitLimit(s, sep, limit) ==
  LET parts == Split(s, sep) IN
  IF Len(parts) <= limit THEN parts ELSE SubSeq(parts, 1, limit)

\* Array element access: undefined past the end.
At(arr, i) == IF i <= Len(arr) THEN arr[i] ELSE Undefined

\* The other components, at rest.
IdleUpd == [pc |-> "off", local |-> FALSE, n |-> 0, log |-> <<>>,
            results |-> <<>>]
IdleRdr == [state |-> "off", file |-> <<>>, pos |-> 0, registrations |-> <<>>,
            promise |-> "pending", value |-> <<>>, settled |-> 0,
            errored |-> FALSE]
IdleVld == [state |-> "off"]
IdleCdc == [state |-> "off"]

(***************************************************************************)
(* fetch                                                                   *)
(***************************************************************************)

\* How many fetch calls one caller makes.
MaxCalls == 2

Procs == {"p1", "p2"}

\* The registrations fetched: two registry sources with a digest, one source
\* without details.
Regs ==
  { [name |-> <<"a">>, version |-> <<"1.0.0">>,
     source |-> <<"registry+x", "#", "d1">>],
    [name |-> <<"b">>, version |-> <<"2.0.0">>,
     source |-> <<"registry+x", "#", "d2">>],
    [name |-> <<"c">>, version |-> <<"1.0.0">>,
     source |-> <<"path+dir">>] }

\* What a remote location may serve, and the digest of each.
Contents == {"c1", "c2"}
DigestOf(c) == IF c = "c1" THEN <<"d1">> ELSE <<"d2">>

Absent == [content |-> "(absent)", complete |-> FALSE]
EmptyFile == [content |-> "(empty)", complete |-> TRUE]
File(c, whole) == [content |-> c, complete |-> whole]

\* checksum(path): the digest of the bytes that are in the file.
getChecksum(f) ==
  IF f.complete /\ f.content \in Contents
  THEN DigestOf(f.content) ELSE <<"digest-of", f.content, "truncated">>

\* config.resolveLocalPackage / config.resolveSource: paths derived from the
\* registration's name and version.
resolveLocalPackage(r) == <<"packages", r.name, r.version>>
resolveSource(r) == <<"sources", r.name, r.version>>

\* const [_, checksum] = registration.source.split('#', 2)
SourceChecksum(r) == At(SplitLimit(r.source, "#", 2), 2)

\* if (comparison !== checksum) throw
ChecksumAlwaysAccepted(comparison, checksum) == FALSE
ChecksumMismatch(comparison, checksum) == comparison # checksum

\* new Error(`Invalid checksum for ${name}@${version}`)
InvalidChecksum(r) ==
  [kind |-> "Invalid checksum", name |-> r.name, version |-> r.version]
NoError == [kind |-> "none", name |-> <<>>, version |-> <<>>]
OtherError == [kind |-> "failure", name |-> <<>>, version |-> <<>>]

NoReg == [name |-> <<>>, version |-> <<>>, source |-> <<>>]
NoCall ==
  [reg |-> NoReg, hit |-> "unknown", downloaded |-> FALSE,
   comparison |-> Undefined, digested |-> FALSE, moved |-> FALSE,
   ensured |-> FALSE, extracted |-> FALSE, result |-> "pending",
   error |-> NoError, returned |-> <<>>, atStart |-> Absent,
   later |-> FALSE, contents |-> Absent]
NoPrior == [ok |-> FALSE, src |-> <<>>, contents |-> Absent, archive |-> Absent]

Busy(r) == \E q \in Procs : pc[q] \notin {"idle", "done"} /\ call[q].reg = r

InitFetchVars ==
  /\ pc = [p \in Procs |-> "idle"]
  /\ call = [p \in Procs |-> NoCall]
  /\ archive = [r \in Regs |-> Absent]
  /\ tmp = [p \in Procs |-> Absent]
  /\ srcDir = [r \in Regs |-> Absent]
  /\ prior = [r \in Regs |-> NoPrior]
  /\ calls = [p \in Procs |-> 0]

\* fetch touches nothing of the other components.
OnlyFetch == UNCHANGED <<upd, rdr, vld, cdc>>

\* A call ends by throwing: a failed or cancelled primitive, or the checksum error.
Throw(p, err, kind) ==
  /\ pc' = [pc EXCEPT ![p] = "done"]
  /\ call' = [call EXCEPT ![p].result = kind, ![p].error = err]

\* fetch(config, registration) is called; concurrent calls are for distinct
\* registrations.
FetchStart(p) ==
  /\ pc[p] \in {"idle", "done"}
  /\ calls[p] < MaxCalls
  /\ \E r \in Regs :
       /\ ~Busy(r)
       /\ call' = [call EXCEPT ![p] =
                     [NoCall EXCEPT !.reg = r, !.atStart = archive[r],
                                    !.later = prior[r].ok]]
  /\ pc' = [pc EXCEPT ![p] = "exists"]
  /\ calls' = [calls EXCEPT ![p] = @ + 1]
  /\ UNCHANGED <<archive, tmp, srcDir, prior>>
  /\ OnlyFetch

\* if (!await exists(file))
FetchExistsAlwaysMiss(p) ==
  /\ pc[p] = "exists"
  /\ call' = [call EXCEPT ![p].hit = "miss"]
  /\ pc' = [pc EXCEPT ![p] = "tmpFile"]
  /\ UNCHANGED <<archive, tmp, srcDir, prior, calls>>
  /\ OnlyFetch
FetchExists(p) ==
  /\ pc[p] = "exists"
  /\ LET present == archive[call[p].reg] # Absent IN
       /\ call' = [call EXCEPT ![p].hit = IF present THEN "hit" ELSE "miss"]
       /\ pc' = [pc EXCEPT ![p] = IF present THEN "ensureDir" ELSE "tmpFile"]
  /\ UNCHANGED <<archive, tmp, srcDir, prior, calls>>
  /\ OnlyFetch

\* const unverifiedFile = await tmpFile()
FetchTmpFile(p) ==
  /\ pc[p] = "tmpFile"
  /\ tmp' = [tmp EXCEPT ![p] = EmptyFile]
  /\ pc' = [pc EXCEPT ![p] = "download"]
  /\ UNCHANGED <<call, archive, srcDir, prior, calls>>
  /\ OnlyFetch

\* await download(url, unverifiedFile): the remote serves some content.
FetchDownload(p) ==
  /\ pc[p] = "download"
  /\ \E c \in Contents : tmp' = [tmp EXCEPT ![p] = File(c, TRUE)]
  /\ call' = [call EXCEPT ![p].downloaded = TRUE]
  /\ pc' = [pc EXCEPT ![p] = "checksum"]
  /\ UNCHANGED <<archive, srcDir, prior, calls>>
  /\ OnlyFetch

\* download fails or is cancelled part-way: the temporary file is left truncated.
FetchDownloadFail(p) ==
  /\ pc[p] = "download"
  /\ \E c \in Contents : tmp' = [tmp EXCEPT ![p] = File(c, FALSE)]
  /\ pc' = [pc EXCEPT ![p] = "done"]
  /\ call' = [call EXCEPT ![p].downloaded = TRUE, ![p].result = "failed",
                          ![p].error = OtherError]
  /\ UNCHANGED <<archive, srcDir, prior, calls>>
  /\ OnlyFetch

\* const comparison = await getChecksum(unverifiedFile); if (comparison !==
\* checksum) throw ...; the comparison runs in the same turn as the digest's
\* continuation.
FetchChecksum(p) ==
  /\ pc[p] = "checksum"
  /\ LET comparison == getChecksum(tmp[p])
         r == call[p].reg
     IN IF ChecksumMismatch(comparison, SourceChecksum(r))
        THEN /\ pc' = [pc EXCEPT ![p] = "done"]
             /\ call' = [call EXCEPT ![p].comparison = comparison,
                                     ![p].digested = TRUE,
                                     ![p].result = "checksum",
                                     ![p].error = InvalidChecksum(r)]
        ELSE /\ pc' = [pc EXCEPT ![p] = "move"]
             /\ call' = [call EXCEPT ![p].comparison = comparison,
                                     ![p].digested = TRUE]
  /\ UNCHANGED <<archive, tmp, srcDir, prior, calls>>
  /\ OnlyFetch

\* await move(unverifiedFile, file): the file is relocated in one step.
FetchMove(p) ==
  /\ pc[p] = "move"
  /\ archive' = [archive EXCEPT ![call[p].reg] = tmp[p]]
  /\ tmp' = [tmp EXCEPT ![p] = Absent]
  /\ call' = [call EXCEPT ![p].moved = TRUE]
  /\ pc' = [pc EXCEPT ![p] = "ensureDir"]
  /\ UNCHANGED <<srcDir, prior, calls>>
  /\ OnlyFetch

\* A move that copies, failing part-way (not what move does).
FetchMoveFailTruncating(p) ==
  /\ pc[p] = "move"
  /\ archive' = [archive EXCEPT ![call[p].reg] = File(tmp[p].content, FALSE)]
  /\ Throw(p, OtherError, "failed")
  /\ UNCHANGED <<tmp, srcDir, prior, calls>>
  /\ OnlyFetch

\* move fails or is cancelled: nothing is at the destination.
FetchMoveFail(p) ==
  /\ pc[p] = "move"
  /\ Throw(p, OtherError, "failed")
  /\ UNCHANGED <<archive, tmp, srcDir, prior, calls>>
  /\ OnlyFetch

\* await ensureDir(src)
FetchEnsureDir(p) ==
  /\ pc[p] = "ensureDir"
  /\ LET r == call[p].reg IN
       srcDir' = [srcDir EXCEPT ![r] = IF @ = Absent THEN EmptyFile ELSE @]
  /\ call' = [call EXCEPT ![p].ensured = TRUE]
  /\ pc' = [pc EXCEPT ![p] = "extract"]
  /\ UNCHANGED <<archive, tmp, prior, calls>>
  /\ OnlyFetch

\* await extract({ file, cwd: src }); return src
FetchExtract(p) ==
  /\ pc[p] = "extract"
  /\ LET r == call[p].reg IN
       /\ srcDir' = [srcDir EXCEPT ![r] = File(archive[r].content, TRUE)]
       /\ call' = [call EXCEPT ![p].extracted = TRUE, ![p].result = "ok",
                               ![p].returned = resolveSource(r),
                               ![p].contents = File(archive[r].content, TRUE)]
       /\ prior' = [prior EXCEPT ![r] =
                      IF @.ok THEN @
                      ELSE [ok |-> TRUE, src |-> resolveSource(r),
                            contents |-> File(archive[r].content, TRUE),
                            archive |-> archive[r]]]
  /\ pc' = [pc EXCEPT ![p] = "done"]
  /\ UNCHANGED <<archive, tmp, calls>>
  /\ OnlyFetch

\* extract fails or is cancelled: the directory may hold part of the archive.
FetchExtractFail(p) ==
  /\ pc[p] = "extract"
  /\ LET r == call[p].reg IN
       \E partly \in BOOLEAN :
         srcDir' = [srcDir EXCEPT ![r] =
                      IF partly THEN File(archive[r].content, FALSE) ELSE @]
  /\ Throw(p, OtherError, "failed")
  /\ UNCHANGED <<archive, tmp, prior, calls>>
  /\ OnlyFetch

\* Any other awaited primitive (exists, tmpFile, checksum, ensureDir) fails, or
\* the call is cancelled while it waits.
FetchAwaitFail(p) ==
  /\ pc[p] \in {"exists", "tmpFile", "checksum", "ensureDir"}
  /\ Throw(p, OtherError, "failed")
  /\ UNCHANGED <<archive, tmp, srcDir, prior, calls>>
  /\ OnlyFetch

NextFetch ==
  \E p \in Procs :
    \/ FetchStart(p)
    \/ FetchExists(p)
    \/ FetchTmpFile(p)
    \/ FetchDownload(p)
    \/ FetchDownloadFail(p)
    \/ FetchChecksum(p)
    \/ FetchMove(p)
    \/ FetchMoveFail(p)
    \/ FetchEnsureDir(p)
    \/ FetchExtract(p)
    \/ FetchExtractFail(p)
    \/ FetchAwaitFail(p)

(***************************************************************************)
(* update                                                                  *)
(***************************************************************************)

\* How many update calls are made, one after the other.
MaxUpdates == 3

\* upd.local: whether the local mirror directory exists. upd.log: the primitives
\* invoked so far, each with the call that invoked it and whether it succeeded
\* (for exists: what it answered). upd.results: how each finished call ended.
Event(n, prim, ok) == [call |-> n, prim |-> prim, ok |-> ok]

\* The mirror directory may be there from an earlier session.
InitUpdate ==
  /\ \E present \in BOOLEAN :
       upd = [pc |-> "idle", local |-> present, n |-> 0, log |-> <<>>,
              results |-> <<>>]
  /\ InitFetchVars
  /\ rdr = IdleRdr /\ vld = IdleVld /\ cdc = IdleCdc

OnlyUpdate == UNCHANGED <<fetchVars, rdr, vld, cdc>>

Invoke(prim, ok) == Append(upd.log, Event(upd.n, prim, ok))

\* update(config) is called
UpdateStart ==
  /\ upd.pc \in {"idle", "done"}
  /\ upd.n < MaxUpdates
  /\ upd' = [upd EXCEPT !.pc = "exists", !.n = @ + 1]
  /\ OnlyUpdate

\* if (!await exists(local))
UpdateExistsAlwaysAbsent ==
  /\ upd.pc = "exists"
  /\ upd' = [upd EXCEPT !.log = Invoke("exists", upd.local),
                        !.pc = "ensureDir"]
  /\ OnlyUpdate
UpdateExists ==
  /\ upd.pc = "exists"
  /\ upd' = [upd EXCEPT !.log = Invoke("exists", upd.local),
                        !.pc = IF upd.local THEN "pull" ELSE "ensureDir"]
  /\ OnlyUpdate

\* await ensureDir(dirname(local))
UpdateEnsureDir ==
  /\ upd.pc = "ensureDir"
  /\ upd' = [upd EXCEPT !.log = Invoke("ensureDir", TRUE), !.pc = "clone"]
  /\ OnlyUpdate

UpdateEnsureDirFail ==
  /\ upd.pc = "ensureDir"
  /\ upd' = [upd EXCEPT !.log = Invoke("ensureDir", FALSE), !.pc = "done",
                        !.results = Append(@, "ensureDir failed")]
  /\ OnlyUpdate

\* await clone(remote, basename(local), dir)
UpdateClone ==
  /\ upd.pc = "clone"
  /\ upd' = [upd EXCEPT !.log = Invoke("clone", TRUE), !.pc = "pull",
                        !.local = TRUE]
  /\ OnlyUpdate

\* clone fails; it may leave the directory it had begun to fill.
UpdateCloneFail ==
  /\ upd.pc = "clone"
  /\ \E left \in BOOLEAN :
       upd' = [upd EXCEPT !.log = Invoke("clone", FALSE), !.pc = "done",
                         !.local = left,
                         !.results = Append(@, "clone failed")]
  /\ OnlyUpdate

\* await pull(local)
UpdatePull ==
  /\ upd.pc = "pull"
  /\ upd' = [upd EXCEPT !.log = Invoke("pull", TRUE), !.pc = "done",
                        !.results = Append(@, "ok")]
  /\ OnlyUpdate

UpdatePullFail ==
  /\ upd.pc = "pull"
  /\ upd' = [upd EXCEPT !.log = Invoke("pull", FALSE), !.pc = "done",
                        !.results = Append(@, "pull failed")]
  /\ OnlyUpdate

NextUpdate ==
  \/ UpdateStart
  \/ UpdateExists
  \/ UpdateEnsureDir
  \/ UpdateEnsureDirFail
  \/ UpdateClone
  \/ UpdateCloneFail
  \/ UpdatePull
  \/ UpdatePullFail

SpecUpdate == InitUpdate /\ [][NextUpdate]_vars

InitFetch ==
  /\ InitFetchVars
  /\ upd = IdleUpd /\ rdr = IdleRdr /\ vld = IdleVld /\ cdc = IdleCdc

SpecFetch == InitFetch /\ [][NextFetch]_vars

(***************************************************************************)
(* resolve                                                                 *)
(***************************************************************************)

\* How many lines the index file of a name has.
MaxLines == 3

\* A line of the index file: a version record, or text that is not JSON. The
\* flags are JSON values: "true", "false", or "undefined" when the key is
\* missing.
Dep(name, req) ==
  [name |-> name, req |-> req, features |-> <<"f1">>, optional |-> "false",
   default_features |-> "true"]
Record(vers, deps, cksum, yanked) ==
  [json |-> TRUE, name |-> <<"left-pad">>, vers |-> vers, deps |-> deps,
   cksum |-> cksum, features |-> <<"f0">>, yanked |-> yanked]
NotJson ==
  [json |-> FALSE, name |-> <<>>, vers |-> <<>>, deps |-> <<>>,
   cksum |-> <<>>, features |-> <<>>, yanked |-> "undefined"]
IndexLines ==
  { Record(<<"1.0.0">>, <<>>, <<"abc123">>, "false"),
    Record(<<"1.1.0">>, <<Dep(<<"b">>, <<"^1.0.0">>)>>, <<"def456">>, "true"),
    Record(<<"2.0.0">>,
           <<Dep(<<"b">>, <<"^2.0.0">>), Dep(<<"c">>, <<"*">>)>>,
           <<"0a0a0a">>, "undefined"),
    NotJson }
IndexFiles == UNION {[1..n -> IndexLines] : n \in 0..MaxLines}

\* if (yanked) return
YankedIgnored(record) == FALSE
Yanked(record) == record.yanked = "true"

\* deps.map(dep => ({ name, version: req, features, optional, default_features }))
RegistryDependency(dep) ==
  [name |-> dep.name, version |-> dep.req, features |-> dep.features,
   optional |-> dep.optional, default_features |-> dep.default_features]

\* { name, version: vers, dependencies, features, source: `registry+...#${cksum}` }
RegistrationOf(record) ==
  [name |-> record.name, version |-> record.vers,
   dependencies |-> [i \in 1..Len(record.deps) |->
                       RegistryDependency(record.deps[i])],
   features |-> record.features,
   source |-> <<"registry+https://github.com/vba-blocks/registry", "#">>
                \o record.cksum]

\* The promise executor has run: the stream and the reader are open, the three
\* listeners are registered, nothing has been read.
InitResolve ==
  /\ \E f \in IndexFiles :
       rdr = [state |-> "open", file |-> f, pos |-> 0, registrations |-> <<>>,
              promise |-> "pending", value |-> <<>>, settled |-> 0,
              errored |-> FALSE]
  /\ InitFetchVars
  /\ upd = IdleUpd /\ vld = IdleVld /\ cdc = IdleCdc

OnlyResolve == UNCHANGED <<fetchVars, upd, vld, cdc>>

NextLine == rdr.file[rdr.pos + 1]
CanRead == rdr.state = "open" /\ ~rdr.errored /\ rdr.pos < Len(rdr.file)

\* reader.on('line', ...) for a line that JSON.parse accepts
ReaderLine ==
  /\ CanRead /\ NextLine.json
  /\ rdr' = [rdr EXCEPT
               !.pos = @ + 1,
               !.registrations =
                 IF Yanked(NextLine) THEN @
                 ELSE Append(@, RegistrationOf(NextLine))]
  /\ OnlyResolve

\* JSON.parse(line) throws inside the listener: the exception leaves emit() and
\* is uncaught; by default the process ends with the promise still pending.
ReaderLineThrows ==
  /\ CanRead /\ ~NextLine.json
  /\ rdr' = [rdr EXCEPT !.pos = @ + 1, !.state = "crashed"]
  /\ OnlyResolve

\* The same throw in a host that survives uncaught exceptions: the line is
\* lost and the reader goes on.
ReaderLineThrowsSurvived ==
  /\ CanRead /\ ~NextLine.json
  /\ rdr' = [rdr EXCEPT !.pos = @ + 1]
  /\ OnlyResolve

\* reader.on('close', () => resolve(registrations)): at the end of the input,
\* or after an error closed it. Settling a settled promise does nothing.
ReaderClose ==
  /\ rdr.state = "open"
  /\ rdr.errored \/ rdr.pos = Len(rdr.file)
  /\ rdr' = [rdr EXCEPT
               !.state = "closed",
               !.promise = IF @ = "pending" THEN "fulfilled" ELSE @,
               !.value = IF rdr.promise = "pending"
                         THEN rdr.registrations ELSE @,
               !.settled = IF rdr.promise = "pending" THEN @ + 1 ELSE @]
  /\ OnlyResolve

\* reader.on('error', reject)
ReaderError ==
  /\ rdr.state = "open" /\ ~rdr.errored
  /\ rdr' = [rdr EXCEPT
               !.errored = TRUE,
               !.promise = IF @ = "pending" THEN "rejected" ELSE @,
               !.settled = IF rdr.promise = "pending" THEN @ + 1 ELSE @]
  /\ OnlyResolve

NextResolve ==
  \/ ReaderLine
  \/ ReaderLineThrows
  \/ ReaderLineThrowsSurvived
  \/ ReaderClose
  \/ ReaderError

SpecResolve == InitResolve /\ [][NextResolve]_vars

(***************************************************************************)
(* isLockfileValid                                                         *)
(***************************************************************************)

\* The longest dependency list of a root snapshot, and the most members.
MaxDeps == 2
MaxMembers == 2

SeqsUpTo(S, n) == UNION {[1..k -> S] : k \in 0..n}
UniqueNames(seq) ==
  \A i, j \in 1..Len(seq) : seq[i].name = seq[j].name => i = j

PinnedVersions == {<<"1.0.0">>, <<"1.1.0">>, <<"2.0.0">>}

\* The versions a semver range accepts; a pinned version accepts itself.
Accepts(range) ==
  CASE range = <<"^1.0.0">> -> {<<"1.0.0">>, <<"1.1.0">>}
    [] range = <<"^2.0.0">> -> {<<"2.0.0">>}
    [] range \in PinnedVersions -> {range}
    [] OTHER -> {}

\* satisfies(value, comparison) of manifest/dependency: value's constraint
\* accepts comparison's version.
satisfies(value, comparison) == comparison.version \in Accepts(value.version)

Dependency(name, version, source) ==
  [name |-> name, version |-> version, source |-> source]
Snapshot(name, version, dependencies) ==
  [name |-> name, version |-> version, dependencies |-> dependencies]

\* byName[x.name] = x for each x in turn: a later entry replaces an earlier one
\* of the same name. The result maps the names present to their entries.
ByName(seq) ==
  [n \in {seq[i].name : i \in 1..Len(seq)} |->
     LET last == CHOOSE i \in 1..Len(seq) :
                   /\ seq[i].name = n
                   /\ \A j \in 1..Len(seq) : seq[j].name = n => j <= i
     IN seq[last]]

\* compareDependencies(current, locked)
compareDependenciesReversed(current, locked) ==
  IF Len(current.dependencies) # Len(locked.dependencies) THEN FALSE
  ELSE
    LET byName == ByName(locked.dependencies) IN
    \A i \in 1..Len(current.dependencies) :
      LET dependency == current.dependencies[i] IN
        /\ dependency.name \in DOMAIN byName
        /\ satisfies(dependency, byName[dependency.name])
compareDependencies(current, locked) ==
  IF Len(current.dependencies) # Len(locked.dependencies) THEN FALSE
  ELSE
    LET byName == ByName(current.dependencies) IN
    \A i \in 1..Len(locked.dependencies) :
      LET dependency == locked.dependencies[i] IN
        /\ dependency.name \in DOMAIN byName
        /\ satisfies(byName[dependency.name], dependency)

\* isLockfileValid(lockfile, workspace)
isLockfileValid(lockfile, workspace) ==
  IF ~compareDependencies(workspace.root, lockfile.workspace.root) THEN FALSE
  ELSE IF Len(lockfile.workspace.members) # Len(workspace.members) THEN FALSE
  ELSE
    LET byName == ByName(workspace.members) IN
    \A i \in 1..Len(lockfile.workspace.members) :
      LET member == lockfile.workspace.members[i] IN
        /\ member.name \in DOMAIN byName
        /\ compareDependencies(byName[member.name], member)

\* The inputs. A lockfile is one that fromToml can return: every dependency of
\* a name is the one Dependency built from the package of that name, and a
\* hand-edited file may list a dependency or a member twice. A workspace comes
\* from manifests: the dependencies of a manifest are the keys of a table, and
\* its members are told apart by name.
DependencyNames == {<<"a">>, <<"b">>}
MemberNames == {<<"m">>, <<"n">>}
Ranges == {<<"^1.0.0">>, <<"^2.0.0">>}
LockedPackages ==
  { [n \in DependencyNames |->
       Dependency(n, IF n = <<"a">> THEN va ELSE <<"1.0.0">>,
                  <<"registry+x", "#", "c1">>)] :
    va \in {<<"1.0.0">>, <<"2.0.0">>} }
CurrentDependencies ==
  {Dependency(n, r, Undefined) : n \in DependencyNames, r \in Ranges}
CurrentDependencyLists ==
  {ds \in SeqsUpTo(CurrentDependencies, MaxDeps) : UniqueNames(ds)}
Hydrated(names, byName) == [i \in 1..Len(names) |-> byName[names[i]]]
LockedMembers(byName) ==
  { Snapshot(n, <<"0.1.0">>, Hydrated(ds, byName)) :
      n \in MemberNames, ds \in {<<>>, <<<<"a">>>>} }
CurrentMembers ==
  { Snapshot(n, <<"0.1.0">>, ds) :
      n \in MemberNames,
      ds \in {<<>>, <<Dependency(<<"a">>, <<"^1.0.0">>, Undefined)>>} }

InitValid ==
  /\ \E byName \in LockedPackages :
     \E lockedRoot \in SeqsUpTo(DependencyNames, MaxDeps) :
     \E currentRoot \in CurrentDependencyLists :
     \E lockedMembers \in SeqsUpTo(LockedMembers(byName), MaxMembers) :
     \E currentMembers \in
          {ms \in SeqsUpTo(CurrentMembers, MaxMembers) : UniqueNames(ms)} :
       vld = [state |-> "loaded",
              lockfile |->
                [workspace |->
                   [root |-> Snapshot(<<"root">>, <<"0.1.0">>,
                                      Hydrated(lockedRoot, byName)),
                    members |-> lockedMembers]],
              workspace |->
                [root |-> Snapshot(<<"root">>, <<"0.1.0">>, currentRoot),
                 members |-> currentMembers],
              result |-> FALSE]
  /\ InitFetchVars
  /\ upd = IdleUpd /\ rdr = IdleRdr /\ cdc = IdleCdc

\* isLockfileValid(lockfile, workspace) is called
CheckLockfile ==
  /\ vld.state = "loaded"
  /\ vld' = [vld EXCEPT !.state = "checked",
                        !.result = isLockfileValid(vld.lockfile, vld.workspace)]
  /\ UNCHANGED <<fetchVars, upd, rdr, cdc>>

NextValid == CheckLockfile

SpecValid == InitValid /\ [][NextValid]_vars

(***************************************************************************)
(* The lockfile codec: toToml, fromToml, readLockfile, writeLockfile       *)
(***************************************************************************)

\* The most [[packages]] entries of a lockfile on disk.
MaxPackages == 2

\* Parsed TOML values: a string, an array of strings, or a missing key.
Str(s) == [t |-> "str", v |-> s]
Arr(a) == [t |-> "arr", v |-> a]
JsUndefined == [t |-> "undefined", v |-> <<>>]
Get(value, key) == IF key \in DOMAIN value THEN value[key] ELSE JsUndefined
Truthy(x) == x.t = "arr" \/ (x.t = "str" /\ x.v # <<>>)
IsArray(x) == x.t = "arr"

\* A TOML document is a sequence of tables, each a header and its key/value
\* pairs; convertToToml writes the keys of every table in alphabetical order
\* and the tables under their top-level key, in alphabetical order.
KeyOrder == <<"dependencies", "name", "source", "version">>
PairsOf(entry) ==
  LET Present(k) == k \in DOMAIN entry
      keys == SelectSeq(KeyOrder, Present)
  IN [i \in 1..Len(keys) |-> <<keys[i], entry[keys[i]]>>]
Table(header, entry) == [header |-> header, pairs |-> PairsOf(entry)]
TablesOf(header, entries) ==
  [i \in 1..Len(entries) |-> Table(header, entries[i])]
convertToToml(obj) ==
  TablesOf("members", obj.members) \o TablesOf("packages", obj.packages)
    \o <<Table("root", obj.root)>>

\* parse of toml: the tables back into an object; [[x]] tables become the array
\* x, which is missing when there is none.
EntryOf(pairs) ==
  [k \in {pairs[i][1] : i \in 1..Len(pairs)} |->
     LET i == CHOOSE j \in 1..Len(pairs) : pairs[j][1] = k IN pairs[i][2]]
parseToml(tables) ==
  LET WithHeader(h) ==
        LET Is(t) == t.header = h
            ts == SelectSeq(tables, Is)
        IN [i \in 1..Len(ts) |-> EntryOf(ts[i].pairs)]
      headers == {tables[i].header : i \in 1..Len(tables)}
  IN [h \in headers |->
        IF h = "root" THEN WithHeader(h)[1] ELSE WithHeader(h)]

\* getRegistrationId(name, version): 'a@1.0.0'
getRegistrationId(name, version) == name \o <<"@">> \o version

\* toDependency(registration): the dependency that stands for a package of the
\* lockfile, with its name, version and source.
toDependency(registration) ==
  Dependency(registration.name, registration.version, registration.source)

\* getRegistration(packages, dependency): the one registration of that name
\* whose version the dependency's constraint accepts; none when there is no
\* such registration or more than one.
Matches(packages, dependency) ==
  {i \in 1..Len(packages) :
     /\ packages[i].name = dependency.name
     /\ packages[i].version \in Accepts(dependency.version)}
HasRegistration(packages, dependency) ==
  Cardinality(Matches(packages, dependency)) = 1
getRegistration(packages, dependency) ==
  packages[CHOOSE i \in Matches(packages, dependency) : TRUE]

\* toDependencyId(dependency, packages): `${dependency.name} ${version} ${source}`
toDependencyId(dependency, packages) ==
  LET registration == getRegistration(packages, dependency) IN
  dependency.name \o <<" ">> \o registration.version \o <<" ">>
    \o registration.source

\* Whether every toDependencyId of a dependency list finds its registration.
Resolvable(dependencies, packages) ==
  \A i \in 1..Len(dependencies) : HasRegistration(packages, dependencies[i])
Ids(dependencies, packages) ==
  [i \in 1..Len(dependencies) |-> toDependencyId(dependencies[i], packages)]

\* prepareManifest(manifest, packages)
prepareManifest(manifest, packages) ==
  ("name" :> Str(manifest.name)) @@ ("version" :> Str(manifest.version))
    @@ ("dependencies" :> Arr(Ids(manifest.dependencies, packages)))

\* The object toToml builds for a registration.
preparePackage(registration, packages) ==
  ("name" :> Str(registration.name)) @@ ("version" :> Str(registration.version))
    @@ ("source" :> Str(registration.source))
    @@ ("dependencies" :> Arr(Ids(registration.dependencies, packages)))

\* Whether toToml throws 'No package found for dependency'.
toTomlThrows(lockfile) ==
  LET packages == lockfile.packages IN
  ~ /\ Resolvable(lockfile.workspace.root.dependencies, packages)
    /\ \A i \in 1..Len(lockfile.workspace.members) :
         Resolvable(lockfile.workspace.members[i].dependencies, packages)
    /\ \A i \in 1..Len(packages) :
         Resolvable(packages[i].dependencies, packages)

\* toToml(lockfile), when it does not throw
toToml(lockfile) ==
  LET packages == lockfile.packages
      members == lockfile.workspace.members
  IN convertToToml(
       [root |-> prepareManifest(lockfile.workspace.root, packages),
        members |-> [i \in 1..Len(members) |->
                       prepareManifest(members[i], packages)],
        packages |-> [i \in 1..Len(packages) |->
                        preparePackage(packages[i], packages)]])

\* const [name] = id.split(' ', 1)
NameOfId(id) == At(SplitLimit(id, " ", 1), 1)

\* getDependency(id, byName) finds the dependency / throws 'Package not found'
Found(id, byName) == NameOfId(id) \in DOMAIN byName
getDependency(id, byName) == byName[NameOfId(id)]
AllFound(ids, byName) == \A i \in 1..Len(ids) : Found(ids[i], byName)
HydratedIds(ids, byName) ==
  [i \in 1..Len(ids) |-> getDependency(ids[i], byName)]

\* The two ok(...) checks on raw values.
PackageOk(value) ==
  /\ Truthy(Get(value, "name")) /\ Truthy(Get(value, "version"))
  /\ Truthy(Get(value, "source")) /\ IsArray(Get(value, "dependencies"))
ManifestOk(value) ==
  /\ Truthy(Get(value, "name")) /\ Truthy(Get(value, "version"))
  /\ IsArray(Get(value, "dependencies"))

\* toManifest(value, byName), when it does not throw
toManifest(value, byName) ==
  Snapshot(value.name.v, value.version.v,
           HydratedIds(value.dependencies.v, byName))
toManifestThrows(value, byName) ==
  IF ~ManifestOk(value) THEN "Invalid manifest in lockfile"
  ELSE IF ~AllFound(value.dependencies.v, byName)
       THEN "Package not found in lockfile"
  ELSE "no"

NoLockfile ==
  [workspace |-> [root |-> Snapshot(<<>>, <<>>, <<>>), members |-> <<>>],
   packages |-> <<>>]
Thrown(message) == [threw |-> TRUE, message |-> message, value |-> NoLockfile]
Returned(lockfile) == [threw |-> FALSE, message |-> "", value |-> lockfile]

\* fromToml(toml) after the parse
fromParsed(parsed) ==
  IF "root" \notin DOMAIN parsed
  THEN Thrown("vba-block.lock is missing [root] field")
  ELSE
    LET raw == IF "packages" \in DOMAIN parsed THEN parsed.packages ELSE <<>>
        rawMembers ==
          IF "members" \in DOMAIN parsed THEN parsed.members ELSE <<>>
    IN
    IF \E i \in 1..Len(raw) : ~PackageOk(raw[i])
    THEN Thrown("Invalid package in lockfile")
    ELSE
      LET skeleton == [i \in 1..Len(raw) |->
            [id |-> getRegistrationId(raw[i].name.v, raw[i].version.v),
             name |-> raw[i].name.v, version |-> raw[i].version.v,
             source |-> raw[i].source.v,
             dependencies |-> raw[i].dependencies.v]]
          byName == ByName([i \in 1..Len(raw) |-> toDependency(skeleton[i])])
          failing == {i \in 1..Len(rawMembers) :
                        toManifestThrows(rawMembers[i], byName) # "no"}
      IN
      IF \E i \in 1..Len(raw) : ~AllFound(skeleton[i].dependencies, byName)
      THEN Thrown("Package not found in lockfile")
      ELSE IF toManifestThrows(parsed.root, byName) # "no"
      THEN Thrown(toManifestThrows(parsed.root, byName))
      ELSE IF failing # {}
      THEN Thrown(toManifestThrows(
             rawMembers[CHOOSE i \in failing : \A j \in failing : i <= j],
             byName))
      ELSE Returned(
        [workspace |->
           [root |-> toManifest(parsed.root, byName),
            members |-> [i \in 1..Len(rawMembers) |->
                           toManifest(rawMembers[i], byName)]],
         packages |-> [i \in 1..Len(raw) |->
            [skeleton[i] EXCEPT
               !.dependencies = HydratedIds(@, byName)]]])

\* The lockfile on disk: no file, a file that cannot be read, text that is not
\* TOML, or a TOML document.
NoFile == [kind |-> "absent", tables |-> <<>>]
Unreadable == [kind |-> "unreadable", tables |-> <<>>]
NotToml == [kind |-> "not toml", tables |-> <<>>]
Toml(tables) == [kind |-> "toml", tables |-> tables]

\* The body of readLockfile's try block.
tryReadLockfile(disk) ==
  IF disk.kind = "absent" THEN [threw |-> FALSE, null |-> TRUE,
                                value |-> NoLockfile]
  ELSE IF disk.kind = "unreadable" \/ disk.kind = "not toml"
  THEN [threw |-> TRUE, null |-> FALSE, value |-> NoLockfile]
  ELSE LET r == fromParsed(parseToml(disk.tables)) IN
       [threw |-> r.threw, null |-> FALSE, value |-> r.value]

\* readLockfile(dir): catch (err) { return null }
readLockfileNoCatch(disk) ==
  LET r == tryReadLockfile(disk) IN
  [kind |-> IF r.threw THEN "raised" ELSE IF r.null THEN "null" ELSE "lockfile",
   lockfile |-> r.value]
readLockfile(disk) ==
  LET r == tryReadLockfile(disk) IN
  [kind |-> IF r.threw \/ r.null THEN "null" ELSE "lockfile",
   lockfile |-> r.value]

\* Dependency ids as they stand in a lockfile: two that name listed packages,
\* one that names no package, one whose version and source differ from the
\* package's, one that is a bare name, one written for a package "a b".
IdA == <<"a", " ", "1.0.0", " ", "registry+x", "#", "c1">>
IdB == <<"b", " ", "1.0.0", " ", "registry+x", "#", "c2">>
IdDangling == <<"zz", " ", "1.0.0", " ", "registry+x", "#", "c9">>
IdStale == <<"a", " ", "9.9.9", " ", "git+elsewhere">>
IdBare == <<"b">>
IdSpaced == <<"a", " ", "b", " ", "1.0.0", " ", "registry+x", "#", "c4">>

PackageEntry(name, version, source, ids) ==
  ("name" :> Str(name)) @@ ("version" :> Str(version))
    @@ ("source" :> Str(source)) @@ ("dependencies" :> Arr(ids))
ManifestEntry(name, version, ids) ==
  ("name" :> Str(name)) @@ ("version" :> Str(version))
    @@ ("dependencies" :> Arr(ids))
Without(entry, key) == [k \in DOMAIN entry \ {key} |-> entry[k]]
With(entry, key, value) ==
  [k \in DOMAIN entry \cup {key} |-> IF k = key THEN value ELSE entry[k]]

\* The [[packages]], [root] and [[members]] entries a lockfile on disk may hold,
\* well-formed or hand-edited.
PackageA == PackageEntry(<<"a">>, <<"1.0.0">>, <<"registry+x", "#", "c1">>, <<>>)
PackageEntries ==
  { PackageA,
    PackageEntry(<<"a">>, <<"2.0.0">>, <<"registry+x", "#", "c3">>, <<IdB>>),
    PackageEntry(<<"b">>, <<"1.0.0">>, <<"registry+x", "#", "c2">>, <<>>),
    PackageEntry(<<"b">>, <<"1.0.0">>, <<"registry+x", "#", "c2">>,
                 <<IdDangling>>),
    PackageEntry(<<"a", " ", "b">>, <<"1.0.0">>, <<"registry+x", "#", "c4">>,
                 <<>>),
    Without(PackageA, "name"), Without(PackageA, "version"),
    Without(PackageA, "source"), With(PackageA, "name", Str(<<>>)),
    With(PackageA, "dependencies", Str(<<"none">>)) }
RootA == ManifestEntry(<<"root">>, <<"0.1.0">>, <<IdA>>)
RootEntries ==
  { RootA,
    ManifestEntry(<<"root">>, <<"0.1.0">>, <<>>),
    ManifestEntry(<<"root">>, <<"0.1.0">>, <<IdA, IdB>>),
    ManifestEntry(<<"root">>, <<"0.1.0">>, <<IdStale, IdA>>),
    ManifestEntry(<<"root">>, <<"0.1.0">>, <<IdBare>>),
    ManifestEntry(<<"root">>, <<"0.1.0">>, <<IdSpaced>>),
    ManifestEntry(<<"root">>, <<"0.1.0">>, <<IdDangling>>),
    Without(RootA, "name"), Without(RootA, "version"),
    Without(RootA, "dependencies"),
    With(RootA, "dependencies", Str(<<"none">>)) }
MemberA == ManifestEntry(<<"m">>, <<"0.1.0">>, <<IdB>>)
MemberLists ==
  { <<>>, <<MemberA>>, <<Without(MemberA, "version")>>,
    <<ManifestEntry(<<"m">>, <<"0.1.0">>, <<IdDangling>>)>> }

DiskStates ==
  {NoFile, Unreadable, NotToml}
    \cup { Toml(TablesOf("members", members) \o TablesOf("packages", packages)
               \o root) :
            members \in MemberLists,
            packages \in SeqsUpTo(PackageEntries, MaxPackages),
            root \in {<<>>} \cup {<<Table("root", e)>> : e \in RootEntries} }

\* The lockfiles handed to writeLockfile: a root, at most one member, and
\* registrations of packages whose names may hold a space.
PackageNames == {<<"a">>, <<"b">>, <<"a", " ", "b">>}
SourceOf(name) ==
  IF name = <<"a">> THEN <<"registry+x", "#", "c1">>
  ELSE IF name = <<"b">> THEN <<"registry+x", "#", "c2">>
  ELSE <<"registry+x", "#", "c3">>
Registrations ==
  { [id |-> getRegistrationId(n, v), name |-> n, version |-> v,
     source |-> SourceOf(n), dependencies |-> ds] :
    n \in PackageNames, v \in {<<"1.0.0">>, <<"2.0.0">>},
    ds \in {<<>>, <<Dependency(<<"b">>, <<"^1.0.0">>, Undefined)>>} }
UniqueIds(packages) ==
  \A i, j \in 1..Len(packages) : packages[i].id = packages[j].id => i = j
ManifestDependencies ==
  { Dependency(<<"a">>, <<"^1.0.0">>, Undefined),
    Dependency(<<"a">>, <<"^2.0.0">>, Undefined),
    Dependency(<<"b">>, <<"^1.0.0">>, Undefined),
    Dependency(<<"a", " ", "b">>, <<"^1.0.0">>, Undefined) }
Lockfiles ==
  { [workspace |->
       [root |-> Snapshot(<<"root">>, <<"0.1.0">>, ds), members |-> ms],
     packages |-> ps] :
    ds \in {d \in SeqsUpTo(ManifestDependencies, MaxDeps) : UniqueNames(d)},
    ms \in { <<>>, <<Snapshot(<<"m">>, <<"0.1.0">>, <<>>)>>,
             <<Snapshot(<<"m">>, <<"0.1.0">>,
                        <<Dependency(<<"a">>, <<"^1.0.0">>, Undefined)>>)>> },
    ps \in {p \in SeqsUpTo(Registrations, MaxPackages) : UniqueIds(p)} }

NoResult == [kind |-> "none", lockfile |-> NoLockfile]
CodecState(disk, mem) ==
  [state |-> "on", disk |-> disk, mem |-> mem, wrote |-> FALSE,
   writeThrew |-> FALSE, result |-> NoResult]

\* A lockfile is on disk, possibly edited by hand, or there is none.
InitRead ==
  /\ \E disk \in DiskStates : cdc = CodecState(disk, NoLockfile)
  /\ InitFetchVars
  /\ upd = IdleUpd /\ rdr = IdleRdr /\ vld = IdleVld

\* A resolved lockfile is in memory and none is on disk.
InitRoundTrip ==
  /\ \E mem \in Lockfiles : cdc = CodecState(NoFile, mem)
  /\ InitFetchVars
  /\ upd = IdleUpd /\ rdr = IdleRdr /\ vld = IdleVld

OnlyCodec == UNCHANGED <<fetchVars, upd, rdr, vld>>

\* readLockfile(dir)
ReadLockfile ==
  /\ cdc.state = "on"
  /\ cdc.result.kind = "none"
  /\ cdc' = [cdc EXCEPT !.result = readLockfile(cdc.disk)]
  /\ OnlyCodec

\* writeLockfile(dir, lockfile): toToml, then the whole file is replaced.
WriteLockfile ==
  /\ cdc.state = "on"
  /\ ~cdc.wrote /\ ~cdc.writeThrew
  /\ IF toTomlThrows(cdc.mem)
     THEN cdc' = [cdc EXCEPT !.writeThrew = TRUE]
     ELSE cdc' = [cdc EXCEPT !.wrote = TRUE, !.result = NoResult,
                            !.disk = Toml(toToml(cdc.mem))]
  /\ OnlyCodec

NextRead == ReadLockfile
NextRoundTrip == WriteLockfile \/ ReadLockfile

SpecRead == InitRead /\ [][NextRead]_vars
SpecRoundTrip == InitRoundTrip /\ [][NextRoundTrip]_vars

(***************************************************************************)
(* Properties of fetch                                                     *)
(***************************************************************************)

\* The digest embedded in a source string: what follows its first '#'.
EmbeddedDigest(source) ==
  LET hashes == {i \in 1..Len(source) : source[i] = "#"} IN
  IF hashes = {} THEN Undefined
  ELSE LET first == CHOOSE i \in hashes : \A j \in hashes : i <= j
       IN SubSeq(source, first + 1, Len(source))

DigestDisagrees(c) ==
  c.digested /\ c.comparison # EmbeddedDigest(c.reg.source)

\* C1 (state part): a call whose computed digest disagrees with the embedded one
\* has ended with the checksum error naming the package and version, has moved
\* nothing, and has ensured and extracted nothing.
C1_RejectedCall ==
  \A p \in Procs :
    DigestDisagrees(call[p]) =>
      /\ pc[p] = "done"
      /\ call[p].result = "checksum"
      /\ call[p].error = [kind |-> "Invalid checksum",
                          name |-> call[p].reg.name,
                          version |-> call[p].reg.version]
      /\ ~call[p].moved /\ ~call[p].ensured /\ ~call[p].extracted
      /\ tmp[p] # Absent

\* C1 (step part): the step in which the digest is found to disagree leaves the
\* trusted archive path absent and extracts nothing.
C1_RejectingStep ==
  \A p \in Procs :
    (~call[p].digested /\ DigestDisagrees(call'[p])) =>
      /\ archive[call[p].reg] = Absent
      /\ archive' = archive
      /\ srcDir' = srcDir

\* C1: on a digest mismatch fetch fails with the named checksum error, the
\* temporary file is not moved to the trusted archive path, which stays absent,
\* and nothing is extracted.
C1_ChecksumGate == []C1_RejectedCall /\ [][C1_RejectingStep]_vars

\* C1 witness: a call has downloaded a file whose digest disagrees and has ended
\* with the checksum error.
C1_Witness ==
  \E p \in Procs :
    /\ call[p].downloaded /\ DigestDisagrees(call[p])
    /\ call[p].result = "checksum"

\* Every file at a trusted archive path is a complete download whose digest is
\* the one embedded in the registration's source.
TrustedArchives ==
  \A r \in Regs :
    archive[r] # Absent =>
      /\ archive[r].complete
      /\ archive[r].content \in Contents
      /\ DigestOf(archive[r].content) = EmbeddedDigest(r.source)

\* A call that has not moved its file has left the trusted path as it found it.
UnmovedUntouched ==
  \A p \in Procs :
    (pc[p] \notin {"idle", "done"} /\ ~call[p].moved) =>
      archive[call[p].reg] = call[p].atStart

\* The trusted archive paths change only in the step that completes a move.
OnlyMoveWrites ==
  archive' # archive =>
    \E p \in Procs :
      /\ pc[p] = "move" /\ pc'[p] = "ensureDir"
      /\ ~call[p].moved /\ call'[p].moved
      /\ \A r \in Regs : r # call[p].reg => archive'[r] = archive[r]

\* C2: in every interleaving, with calls failing or cancelled at any await, a
\* file at a trusted archive path is complete and has the embedded digest, a
\* call that ends before its move leaves the path as it was, and no truncated
\* file is ever at a trusted path.
C2_AtomicPromotion ==
  [](TrustedArchives /\ UnmovedUntouched) /\ [][OnlyMoveWrites]_vars

\* C2 witness: one archive has been promoted while another call, cancelled in
\* its download, left a truncated temporary file and no archive.
C2_Witness ==
  \E p, q \in Procs :
    /\ p # q
    /\ call[p].moved /\ archive[call[p].reg] # Absent
    /\ call[q].result = "failed" /\ call[q].downloaded /\ ~call[q].moved
    /\ tmp[q] # Absent /\ ~tmp[q].complete
    /\ archive[call[q].reg] = Absent

\* C8: once a fetch of r has returned, a later fetch of r downloads nothing,
\* computes no digest, leaves the archive unchanged, and when it returns it has
\* ensured the directory, extracted the archive, and returns the same path with
\* the same extracted contents.
C8_IdempotentFetch ==
  /\ \A r \in Regs : prior[r].ok => archive[r] = prior[r].archive
  /\ \A p \in Procs :
       call[p].later =>
         /\ ~call[p].downloaded /\ ~call[p].digested /\ ~call[p].moved
         /\ pc[p] \notin {"tmpFile", "download", "checksum", "move"}
         /\ call[p].hit # "miss"
         /\ call[p].result = "ok" =>
              /\ call[p].ensured /\ call[p].extracted
              /\ call[p].returned = prior[call[p].reg].src
              /\ call[p].contents = prior[call[p].reg].contents

\* C8 witness: a later fetch of an already fetched registration has returned.
C8_Witness ==
  \E p \in Procs :
    call[p].later /\ call[p].hit = "hit" /\ call[p].result = "ok"

(***************************************************************************)
(* Properties of update                                                    *)
(***************************************************************************)

\* The positions in the log of call k's invocations of prim.
Invocations(k, prim) ==
  {i \in 1..Len(upd.log) : upd.log[i].call = k /\ upd.log[i].prim = prim}
Failed(k, prim) == \E i \in Invocations(k, prim) : ~upd.log[i].ok
AbsentAtCheck(k) == \E i \in Invocations(k, "exists") : ~upd.log[i].ok
Finished == 1..Len(upd.results)
\* A primitive of call k that failed is the call's last, and is how it ended.
FailureIsFinal(k, prim, how) ==
  \A i \in Invocations(k, prim) :
    ~upd.log[i].ok =>
      /\ \A j \in 1..Len(upd.log) : upd.log[j].call = k => j <= i
      /\ k \in Finished => upd.results[k] = how
\* clone is not invoked once the directory exists.
NeverRecloned ==
  \A i \in 1..Len(upd.log) :
    upd.log[i].prim = "clone" =>
      \A j \in 1..(i - 1) :
        /\ ~(upd.log[j].prim = "clone" /\ upd.log[j].ok)
        /\ ~(upd.log[j].prim = "exists" /\ upd.log[j].ok)
CloneOrder(k) ==
  /\ Cardinality(Invocations(k, "clone")) <= 1
  /\ \A i \in Invocations(k, "clone") : \A j \in Invocations(k, "pull") : i < j
  /\ Cardinality(Invocations(k, "pull")) <= 1

\* C7 as stated: in every finished call clone is invoked iff the directory was
\* absent at the check, at most once and before pull; pull is invoked exactly
\* once when clone did not fail; a failed clone or pull ends the call; clone is
\* never invoked once the directory exists.
C7_AsStated ==
  /\ \A k \in Finished :
       /\ (Invocations(k, "clone") # {}) <=> AbsentAtCheck(k)
       /\ CloneOrder(k)
       /\ ~Failed(k, "clone") => Cardinality(Invocations(k, "pull")) = 1
       /\ FailureIsFinal(k, "clone", "clone failed")
       /\ FailureIsFinal(k, "pull", "pull failed")
  /\ NeverRecloned

\* C7 amended: the same, in the calls in which ensureDir of the parent directory
\* does not fail; a failed ensureDir ends the call with that failure before
\* clone and pull.
C7_UpdateProtocol ==
  /\ \A k \in Finished :
       /\ (Invocations(k, "clone") # {})
            <=> (AbsentAtCheck(k) /\ ~Failed(k, "ensureDir"))
       /\ CloneOrder(k)
       /\ (~Failed(k, "clone") /\ ~Failed(k, "ensureDir"))
            => Cardinality(Invocations(k, "pull")) = 1
       /\ Failed(k, "ensureDir")
            => Invocations(k, "clone") = {} /\ Invocations(k, "pull") = {}
       /\ FailureIsFinal(k, "ensureDir", "ensureDir failed")
       /\ FailureIsFinal(k, "clone", "clone failed")
       /\ FailureIsFinal(k, "pull", "pull failed")
  /\ NeverRecloned

\* C7 witness: a call cloned and pulled, and a later call found the directory
\* and only pulled.
C7_Witness ==
  \E k, l \in Finished :
    /\ k < l
    /\ Invocations(k, "clone") # {} /\ upd.results[k] = "ok"
    /\ Invocations(l, "clone") = {} /\ upd.results[l] = "ok"

(***************************************************************************)
(* Properties of resolve                                                   *)
(***************************************************************************)

InvalidDelivered == \E i \in 1..rdr.pos : ~rdr.file[i].json
AllValid == \A i \in 1..Len(rdr.file) : rdr.file[i].json
Over == rdr.state \in {"closed", "crashed"}

\* C5: once a line that is not JSON has been read the promise is never
\* fulfilled and, when the read is over, it is rejected; the promise is settled
\* once, and fulfilled only when every line was parsed.
C5_InvalidLineRejects ==
  /\ InvalidDelivered => rdr.promise # "fulfilled"
  /\ (InvalidDelivered /\ Over) => rdr.promise = "rejected"
  /\ rdr.settled <= 1
  /\ Over => rdr.settled = 1
  /\ rdr.promise = "fulfilled" => (AllValid /\ rdr.pos = Len(rdr.file))

\* The records of the file that are not yanked, in file order.
NotYanked(line) == line.yanked # "true"
Candidates == SelectSeq(rdr.file, NotYanked)
\* What follows the first '#' of a source.
Fragment(source) ==
  LET i == CHOOSE k \in 1..Len(source) :
             source[k] = "#" /\ \A j \in 1..(k - 1) : source[j] # "#"
  IN SubSeq(source, i + 1, Len(source))

\* C6: for a file of valid records the fulfilled value holds one Registration
\* per record that is not yanked, in file order, none for a yanked record, with
\* name, version, digest and dependencies taken from the record.
C6_YankFiltering ==
  (rdr.promise = "fulfilled" /\ AllValid) =>
    /\ Len(rdr.value) = Len(Candidates)
    /\ \A i \in 1..Len(rdr.value) :
         LET reg == rdr.value[i]
             rec == Candidates[i]
         IN /\ reg.name = rec.name
            /\ reg.version = rec.vers
            /\ \E k \in 1..Len(reg.source) : reg.source[k] = "#"
            /\ Fragment(reg.source) = rec.cksum
            /\ Len(reg.dependencies) = Len(rec.deps)
            /\ \A d \in 1..Len(rec.deps) :
                 /\ reg.dependencies[d].version = rec.deps[d].req
                 /\ reg.dependencies[d].name = rec.deps[d].name
                 /\ reg.dependencies[d].features = rec.deps[d].features
                 /\ reg.dependencies[d].optional = rec.deps[d].optional
                 /\ reg.dependencies[d].default_features
                      = rec.deps[d].default_features
    /\ \A i \in 1..Len(rdr.value) :
         \A j \in 1..Len(rdr.file) :
           rdr.file[j].yanked = "true" =>
             rdr.value[i].version # rdr.file[j].vers

\* C6 witness: a file with a yanked record between two records that are not
\* has been read to the end and the promise fulfilled with the two.
C6_Witness ==
  /\ rdr.promise = "fulfilled" /\ AllValid
  /\ Len(rdr.file) = 3 /\ Len(rdr.value) = 2
  /\ rdr.file[2].yanked = "true"
  /\ Len(rdr.value[2].dependencies) = 2

(***************************************************************************)
(* Properties of isLockfileValid                                           *)
(***************************************************************************)

\* A locked snapshot satisfies a current one: as many dependencies, and for
\* every locked dependency a current one of the same name whose constraint
\* accepts the locked version.
LockedSatisfies(locked, current) ==
  /\ Len(locked.dependencies) = Len(current.dependencies)
  /\ \A i \in 1..Len(locked.dependencies) :
       \E j \in 1..Len(current.dependencies) :
         /\ current.dependencies[j].name = locked.dependencies[i].name
         /\ locked.dependencies[i].version
              \in Accepts(current.dependencies[j].version)

\* C3: isLockfileValid returns true iff the locked root satisfies the current
\* root, the member counts are equal, and every lockfile member has a current
\* member of its name that it satisfies.
C3_ValidityIff ==
  vld.state = "checked" =>
    LET locked == vld.lockfile.workspace
        current == vld.workspace
    IN vld.result <=>
         /\ LockedSatisfies(locked.root, current.root)
         /\ Len(locked.members) = Len(current.members)
         /\ \A i \in 1..Len(locked.members) :
              \E j \in 1..Len(current.members) :
                /\ current.members[j].name = locked.members[i].name
                /\ LockedSatisfies(locked.members[i], current.members[j])

\* C3 witness: a lockfile with a member found valid for a workspace whose root
\* constraint accepts the locked version of a dependency.
C3_Witness ==
  /\ vld.state = "checked" /\ vld.result
  /\ Len(vld.lockfile.workspace.root.dependencies) = 2
  /\ Len(vld.lockfile.workspace.members) = 1
  /\ Len(vld.lockfile.workspace.members[1].dependencies) = 1

NamesOf(seq) == {seq[i].name : i \in 1..Len(seq)}

\* C10: when isLockfileValid returns true, every dependency name of the current
\* root is among the locked root's, every current member has a lockfile member
\* of its name, and every dependency name of a current member is among that
\* lockfile member's.
C10_AdditionsInvalidate ==
  (vld.state = "checked" /\ vld.result) =>
    LET locked == vld.lockfile.workspace
        current == vld.workspace
    IN /\ NamesOf(current.root.dependencies)
            \subseteq NamesOf(locked.root.dependencies)
       /\ \A j \in 1..Len(current.members) :
            \E i \in 1..Len(locked.members) :
              /\ locked.members[i].name = current.members[j].name
              /\ NamesOf(current.members[j].dependencies)
                   \subseteq NamesOf(locked.members[i].dependencies)

(***************************************************************************)
(* Properties of the lockfile codec                                        *)
(***************************************************************************)

\* The name in a dependency id: what precedes its first space.
IdName(id) ==
  LET spaces == {i \in 1..Len(id) : id[i] = " "} IN
  IF spaces = {} THEN id
  ELSE SubSeq(id, 1, (CHOOSE i \in spaces : \A j \in spaces : i <= j) - 1)

\* Reading the tables of the file as they stand on disk.
TablesWith(h) ==
  {i \in 1..Len(cdc.disk.tables) : cdc.disk.tables[i].header = h}
Has(t, key, type) ==
  \E i \in 1..Len(t.pairs) : t.pairs[i][1] = key /\ t.pairs[i][2].t = type
Value(t, key) ==
  t.pairs[CHOOSE i \in 1..Len(t.pairs) : t.pairs[i][1] = key][2].v
Lacks(t, key) == ~Has(t, key, "str") \/ Value(t, key) = <<>>
NotSequence(t) == ~Has(t, "dependencies", "arr")
ListedNames ==
  { Value(cdc.disk.tables[i], "name") :
      i \in {j \in TablesWith("packages") :
                Has(cdc.disk.tables[j], "name", "str")} }
Dangling(t) ==
  /\ Has(t, "dependencies", "arr")
  /\ \E i \in 1..Len(Value(t, "dependencies")) :
       IdName(Value(t, "dependencies")[i]) \notin ListedNames

\* The defects for which readLockfile answers null.
Defective ==
  \/ cdc.disk.kind # "toml"
  \/ TablesWith("root") = {}
  \/ \E i \in TablesWith("packages") :
       LET t == cdc.disk.tables[i] IN
         \/ Lacks(t, "name") \/ Lacks(t, "version") \/ Lacks(t, "source")
         \/ NotSequence(t) \/ Dangling(t)
  \/ \E i \in TablesWith("root") \cup TablesWith("members") :
       LET t == cdc.disk.tables[i] IN
         \/ Lacks(t, "name") \/ Lacks(t, "version")
         \/ NotSequence(t) \/ Dangling(t)

\* The dependencies hydrated from table t are, id by id, built from a package
\* entry whose name is the id's.
HydratedFrom(dependencies, t) ==
  LET ids == Value(t, "dependencies") IN
  /\ Len(dependencies) = Len(ids)
  /\ \A i \in 1..Len(ids) :
       /\ dependencies[i].name = IdName(ids[i])
       /\ \E j \in TablesWith("packages") :
            LET p == cdc.disk.tables[j] IN
              dependencies[i] =
                Dependency(Value(p, "name"), Value(p, "version"),
                           Value(p, "source"))

Nth(S, n) == CHOOSE i \in S : Cardinality({j \in S : j < i}) = n - 1

FullyHydrated(lockfile) ==
  /\ HydratedFrom(lockfile.workspace.root.dependencies,
                  cdc.disk.tables[Nth(TablesWith("root"), 1)])
  /\ Len(lockfile.workspace.members) = Cardinality(TablesWith("members"))
  /\ \A n \in 1..Len(lockfile.workspace.members) :
       HydratedFrom(lockfile.workspace.members[n].dependencies,
                    cdc.disk.tables[Nth(TablesWith("members"), n)])
  /\ Len(lockfile.packages) = Cardinality(TablesWith("packages"))
  /\ \A n \in 1..Len(lockfile.packages) :
       HydratedFrom(lockfile.packages[n].dependencies,
                    cdc.disk.tables[Nth(TablesWith("packages"), n)])

\* C9: readLockfile never raises; it answers null for a missing, unreadable or
\* unparsable file, a missing [root], an entry lacking a required field or with
\* a non-sequence dependencies, and a dependency id naming no listed package;
\* otherwise it answers a lockfile each of whose dependencies is the one built
\* from the package entry of its name.
C9_ReadNeverRaises ==
  cdc.result.kind # "none" =>
    /\ cdc.result.kind \in {"null", "lockfile"}
    /\ Defective => cdc.result.kind = "null"
    /\ ~Defective => cdc.result.kind = "lockfile"
    /\ cdc.result.kind = "lockfile" => FullyHydrated(cdc.result.lockfile)

\* C9 witness: a file listing packages a and b, with a member and a root whose
\* first id carries a stale version and source, has been read into a lockfile
\* whose root dependencies are both the one built from package a.
C9_Witness ==
  /\ cdc.result.kind = "lockfile"
  /\ Len(cdc.result.lockfile.packages) = 2
  /\ Len(cdc.result.lockfile.workspace.members) = 1
  /\ Len(cdc.result.lockfile.workspace.root.dependencies) = 2
  /\ cdc.result.lockfile.workspace.root.dependencies[1]
       = Dependency(<<"a">>, <<"1.0.0">>, <<"registry+x", "#", "c1">>)

DependencyNamesOf(x) == NamesOf(x.dependencies)
SameEntries(before, after) ==
  /\ Len(after) = Len(before)
  /\ \A i \in 1..Len(before) :
       /\ after[i].name = before[i].name
       /\ after[i].version = before[i].version
       /\ DependencyNamesOf(after[i]) = DependencyNamesOf(before[i])
RoundTrips(before, after) ==
  /\ SameEntries(<<before.workspace.root>>, <<after.workspace.root>>)
  /\ SameEntries(before.workspace.members, after.workspace.members)
  /\ SameEntries(before.packages, after.packages)
  /\ \A i \in 1..Len(before.packages) :
       after.packages[i].source = before.packages[i].source

\* C4: a lockfile with a complete graph, written with toToml and read back
\* with fromToml, has the same root, member and package names and versions,
\* the same package sources, and the same dependency names everywhere.
C4_RoundTrip ==
  (cdc.wrote /\ cdc.result.kind # "none") =>
    /\ cdc.result.kind = "lockfile"
    /\ RoundTrips(cdc.mem, cdc.result.lockfile)

\* The same for the lockfiles none of whose names holds a space.
NoSpace(name) == \A i \in 1..Len(name) : name[i] # " "
RoundTripWithoutSpaces ==
  (/\ cdc.wrote /\ cdc.result.kind # "none"
   /\ \A i \in 1..Len(cdc.mem.packages) : NoSpace(cdc.mem.packages[i].name)
   /\ \A n \in DependencyNamesOf(cdc.mem.workspace.root) : NoSpace(n))
    => /\ cdc.result.kind = "lockfile"
       /\ RoundTrips(cdc.mem, cdc.result.lockfile)

====
